---- MODULE Spec2Model ----
(***************************************************************************)
(* A model of Ads1298Api.py: the ADS1298 driver for the Raspberry Pi.      *)
(*                                                                         *)
(* Two execution contexts share the driver object: the control context,    *)
(* which issues the public calls (open_device, configure, register_client, *)
(* start_exg_stream, start_test_stream, stop_stream, close_device), and    *)
(* the GPIO event context, which runs drdy_callback on every falling edge  *)
(* of DRDY.  With STUB_API set there is no bus and no GPIO; a generator    *)
(* thread (stub_task) produces the frames instead.                         *)
(*                                                                         *)
(* A public call is modelled as the sequence of primitive steps its body   *)
(* performs (bus transfers, attribute assignments, pin writes, raises),    *)
(* executed one step at a time so that the other context can interleave.   *)
(***************************************************************************)
EXTENDS Integers, Sequences, FiniteSets, TLC

(* ------------------------------------------------------------------ *)
(* Module constants of Ads1298Api.py                                    *)
(* ------------------------------------------------------------------ *)
NUM_CHANNELS == 8

REG_ID == 0
REG_CONFIG1 == 1
REG_CONFIG2 == 2
REG_CONFIG3 == 3
REG_CONFIG4 == 23
REG_LOFF == 4
REG_CHnSET_BASE == 5
REG_BIAS_SENSP == 13
REG_BIAS_SENSN == 14
REG_LOFF_SENSP == 15
REG_LOFF_SENSN == 16
REG_LOFF_FLIP == 17
REG_WCT1 == 24
REG_WCT2 == 25

RDATAC == 16
SDATAC == 17

START_PIN == 22
nRESET_PIN == 24
nPWRDN_PIN == 25
DRDY_PIN == 23
CE1 == 7

(* ------------------------------------------------------------------ *)
(* Bounds of the model                                                  *)
(* ------------------------------------------------------------------ *)
\* longest byte sequence handed to convert_24b_data
MaxLen == 4
\* most subscribers ever registered
MaxClients == 2

\* byte values the inputs are drawn from: both sides of the sign bit
ByteSamples == {0, 1, 127, 128, 255}
\* sampling rates a caller may pass to configure: one that is not documented
\* and the documented four
Rates == {250, 500, 1000, 2000, 4000}
\* the rates passed while the event context runs beside the control context:
\* one that set_sampling_rate refuses and one that it accepts
SomeRates == {250, 500}
\* status words (first three bytes of a frame) the device may return:
\* 0x000000 is out of sync, 0xC00000 is in sync
StatusWords == {<<0, 0, 0>>, <<192, 0, 0>>}
\* subscribers a caller may register: a caller-supplied callback that returns
\* normally, and default_callback of this file
Handles == {"client", "default_callback"}

(* ------------------------------------------------------------------ *)
(* Integer helpers                                                      *)
(* ------------------------------------------------------------------ *)
RECURSIVE BitOr(_, _)
\* x | y on naturals
BitOr(x, y) ==
    IF x = 0 THEN y
    ELSE IF y = 0 THEN x
    ELSE (IF (x % 2 = 1) \/ (y % 2 = 1) THEN 1 ELSE 0) + 2 * BitOr(x \div 2, y \div 2)

RECURSIVE BitAnd(_, _)
\* x & y on naturals
BitAnd(x, y) ==
    IF x = 0 \/ y = 0 THEN 0
    ELSE (IF (x % 2 = 1) /\ (y % 2 = 1) THEN 1 ELSE 0) + 2 * BitAnd(x \div 2, y \div 2)

\* n copies of v: [v] * n
Repeat(v, n) == [i \in 1..n |-> v]

(* ------------------------------------------------------------------ *)
(* Codec: convert_24b_data                                              *)
(* ------------------------------------------------------------------ *)
\* struct.unpack(">i", b)[0]: four bytes, big endian, two's complement.
\* The first byte carries the sign: it weighs -128..127 times 2^24.
unpack_be_i(b) ==
    (IF b[1] > 127 THEN b[1] - 256 ELSE b[1]) * 16777216
        + b[2] * 65536 + b[3] * 256 + b[4]

\* the mutant of convert_24b_data: the prefix byte does not follow the sign
convert_24b_data_noprefix(unpacked) ==
    IF Len(unpacked) # 3
    THEN [exc |-> "ValueError", val |-> 0]
    ELSE [exc |-> "", val |-> unpack_be_i(<<0>> \o unpacked)]

\* convert_24b_data(unpacked) with the default fmt=">i": the result is
\* [exc, val], exc = "" when the call returns val
convert_24b_data(unpacked) ==
    IF Len(unpacked) # 3
    THEN [exc |-> "ValueError", val |-> 0]
    ELSE LET prefix == IF unpacked[1] > 127 THEN <<255>> ELSE <<0>>
         IN  [exc |-> "", val |-> unpack_be_i(prefix \o unpacked)]

\* convert_24b_data(raw[0:3], ">I") & 0xffffff: the unsigned unpack of the
\* prefixed word, masked to its three low-order bytes
status_word(raw) == raw[1] * 65536 + raw[2] * 256 + raw[3]

\* the assertion of default_callback: status_word >> 20 == 0b1100
in_sync(raw) == status_word(raw) \div 1048576 = 12

(* ------------------------------------------------------------------ *)
(* Primitive steps of the control context                               *)
(* ------------------------------------------------------------------ *)
Step(op, a, b, arr, s) == [op |-> op, a |-> a, b |-> b, arr |-> arr, s |-> s]

\* self.spi_transmit_byte(byte)
spi_transmit_byte(byte) == << Step("cmd", byte, 0, <<>>, "") >>
\* self.spi_write_single_reg(reg, byte)
spi_write_single_reg(reg, byte) == << Step("wreg", reg, byte, <<>>, "") >>
\* self.spi_write_multiple_reg(start_reg, byte_array)
spi_write_multiple_reg(start_reg, byte_array) ==
    << Step("wmul", start_reg, 0, byte_array, "") >>
\* self.spi_read_reg(reg)
spi_read_reg(reg) == << Step("rreg", reg, 0, <<>>, "") >>
\* raise / failed assert
Raise(exc) == << Step("raise", 0, 0, <<>>, exc) >>
\* self.<attr> = value, for the two boolean flags
SetFlag(attr, value) == << Step("flag", 0, IF value THEN 1 ELSE 0, <<>>, attr) >>

\* self.set_pin(self.<X>_PIN, state) as written in set_start, set_nreset and
\* set_npwrdn.  START_PIN, nRESET_PIN and nPWRDN_PIN are module globals; the
\* class defines no attribute of these names and has no __getattr__, so the
\* argument self.<X>_PIN raises AttributeError before set_pin is entered, with
\* and without STUB_API.
set_start(state) == Raise("AttributeError")
set_nreset(state) == Raise("AttributeError")
set_npwrdn(state) == Raise("AttributeError")

\* toggle_reset
toggle_reset == set_nreset(FALSE) \o set_nreset(TRUE)

\* configure_all_channels(config)
configure_all_channels(config) ==
    spi_write_multiple_reg(REG_CHnSET_BASE, Repeat(config, NUM_CHANNELS))

\* the mutant of set_sampling_rate: a rate that is not in the table gets the
\* base value instead of the ValueError
set_sampling_rate_default(rate) ==
    LET temp_reg_value == IF rate = 4000 THEN BitOr(128, 3) ELSE 128
    IN  IF rate = 2000 THEN spi_write_single_reg(REG_CONFIG1, BitOr(temp_reg_value, 4))
        ELSE IF rate = 1000 THEN spi_write_single_reg(REG_CONFIG1, BitOr(temp_reg_value, 5))
        ELSE IF rate = 500 THEN spi_write_single_reg(REG_CONFIG1, BitOr(temp_reg_value, 6))
        ELSE spi_write_single_reg(REG_CONFIG1, temp_reg_value)

\* set_sampling_rate: the test for 4000 is an if of its own, and the chain
\* that follows it (if 2000 / elif 1000 / elif 500 / else raise) runs after it
set_sampling_rate(rate) ==
    LET temp_reg_value == IF rate = 4000 THEN BitOr(128, 3) ELSE 128
    IN  IF rate = 2000 THEN spi_write_single_reg(REG_CONFIG1, BitOr(temp_reg_value, 4))
        ELSE IF rate = 1000 THEN spi_write_single_reg(REG_CONFIG1, BitOr(temp_reg_value, 5))
        ELSE IF rate = 500 THEN spi_write_single_reg(REG_CONFIG1, BitOr(temp_reg_value, 6))
        ELSE Raise("ValueError")

\* reset_ongoing_state
reset_ongoing_state(rate) ==
    spi_transmit_byte(SDATAC)
        \o spi_write_single_reg(REG_CONFIG3, 72)
        \o set_sampling_rate(rate)
        \o spi_write_single_reg(REG_CONFIG2, 192)
        \o spi_write_single_reg(REG_BIAS_SENSP, 0)
        \o spi_write_single_reg(REG_BIAS_SENSN, 0)
        \o configure_all_channels(1)

\* configure_dc_leads_off(enable)
configure_dc_leads_off(enable) ==
    IF enable
    THEN spi_write_single_reg(REG_LOFF, 147)
            \o spi_write_single_reg(REG_LOFF_SENSP, 255)
            \o spi_write_single_reg(REG_LOFF_SENSN, 255)
            \o spi_write_single_reg(REG_LOFF_FLIP, 255)
            \o spi_write_single_reg(REG_CONFIG4, 2)
    ELSE spi_write_single_reg(REG_LOFF, 0)
            \o spi_write_single_reg(REG_LOFF_SENSP, 0)
            \o spi_write_single_reg(REG_LOFF_SENSN, 0)
            \o spi_write_single_reg(REG_LOFF_FLIP, 0)
            \o spi_write_single_reg(REG_CONFIG4, 0)

\* the mutant of setup_bias_drive: the test of bias_enabled is missing
setup_bias_drive_always(bias) ==
    LET reg_value == (2 ^ NUM_CHANNELS) - 1
    IN  spi_write_single_reg(REG_BIAS_SENSP, reg_value)
           \o spi_write_single_reg(REG_BIAS_SENSN, reg_value)
           \o spi_write_single_reg(REG_CONFIG3, 236)

\* setup_bias_drive
setup_bias_drive(bias) ==
    IF ~bias THEN <<>>
    ELSE LET reg_value == (2 ^ NUM_CHANNELS) - 1
         IN  spi_write_single_reg(REG_BIAS_SENSP, reg_value)
                \o spi_write_single_reg(REG_BIAS_SENSN, reg_value)
                \o spi_write_single_reg(REG_CONFIG3, 236)

\* setup_exg_mode
setup_exg_mode(bias) ==
    spi_write_single_reg(REG_CONFIG2, 0)
        \o configure_all_channels(96)
        \o spi_write_single_reg(REG_BIAS_SENSP, 255)
        \o spi_write_single_reg(REG_BIAS_SENSN, 1)
        \o spi_write_single_reg(REG_WCT1, 10)
        \o configure_dc_leads_off(TRUE)
        \o setup_bias_drive(bias)

\* setup_test_mode
setup_test_mode ==
    spi_transmit_byte(SDATAC)
        \o spi_write_single_reg(REG_CONFIG2, 17)
        \o spi_write_single_reg(REG_CONFIG3, 192)
        \o configure_dc_leads_off(FALSE)
        \o configure_all_channels(5)

\* check_device_id: the read, then the three assertions on its result
check_device_id == spi_read_reg(REG_ID) \o << Step("check_id", 0, 0, <<>>, "") >>

\* the three assertions of check_device_id on the value read
device_id_ok(res) ==
    /\ BitAnd(res, 24) = 16
    /\ BitAnd(res, 224) = 128
    /\ BitAnd(res, 3) = 2

\* ads1298_startup_sequence (the sleeps take time and change nothing)
ads1298_startup_sequence(rate) ==
    set_nreset(TRUE)
        \o set_npwrdn(TRUE)
        \o toggle_reset
        \o reset_ongoing_state(rate)
        \o check_device_id

\* open_device: the bus and GPIO set-up (or the generator thread), the lock,
\* then the start-up sequence
open_device(isStub, rate) ==
    (IF ~isStub
     THEN << Step("spi_open", 0, 0, <<>>, ""),
             Step("gpio_setup", 0, 0, <<>>, ""),
             Step("add_event_detect", DRDY_PIN, 0, <<>>, "") >>
     ELSE << Step("thread_start", 0, 0, <<>>, "") >>)
        \o << Step("lock_new", 0, 0, <<>>, "") >>
        \o ads1298_startup_sequence(rate)

\* close_device
close_device(isStub) ==
    SetFlag("APIAlive", FALSE)
        \o (IF isStub
            THEN << Step("thread_join", 0, 0, <<>>, "") >>
            ELSE << Step("spi_close", 0, 0, <<>>, ""),
                    Step("gpio_cleanup", 0, 0, <<>>, "") >>)

\* start_exg_stream
start_exg_stream(rate, bias) ==
    reset_ongoing_state(rate)
        \o setup_exg_mode(bias)
        \o SetFlag("stream_active", TRUE)
        \o set_start(TRUE)
        \o spi_transmit_byte(RDATAC)

\* start_test_stream
start_test_stream(rate) ==
    reset_ongoing_state(rate)
        \o setup_test_mode
        \o SetFlag("stream_active", TRUE)
        \o set_start(TRUE)
        \o spi_transmit_byte(RDATAC)

\* the mutant of stop_stream: the active-stream flag is left as it is
stop_stream_keeps_flag ==
    spi_transmit_byte(SDATAC)
        \o SetFlag("APIAlive", FALSE)

\* stop_stream
stop_stream ==
    spi_transmit_byte(SDATAC)
        \o SetFlag("stream_active", FALSE)
        \o SetFlag("APIAlive", FALSE)


\* register_client(client_handle)
register_client(client_handle) == << Step("register", 0, 0, <<>>, client_handle) >>

\* configure(sampling_rate=None, bias_enabled=None); None is written -1
configure(rate_arg, bias_arg) == << Step("configure", rate_arg, bias_arg, <<>>, "") >>

(* ------------------------------------------------------------------ *)
(* State                                                                *)
(* ------------------------------------------------------------------ *)
VARIABLES
    stub,                \* STUB_API: spidev or RPi.GPIO could not be imported
    sampling_rate,       \* self.sampling_rate
    bias_enabled,        \* self.bias_enabled
    stream_active,       \* self.stream_active
    APIAlive,            \* self.APIAlive
    config_registers,    \* self.config_registers; -1 where no key is present
    clientUpdateHandles, \* self.clientUpdateHandles
    spi_lock,            \* self.spi_lock: "none" (None), "free", or its holder
    spi_state,           \* "closed" or "open": self.spi between open() and close()
    drdy_armed,          \* the falling-edge detection on DRDY_PIN is registered
    pins,                \* levels of the three output pins
    xferring,            \* the contexts that are inside spi.xfer
    lifecycle,           \* "new", "opening", "opened" (open_device returned),
                         \* "open_refused", "open_raised" (it raised), "closed"
    continuous,          \* the last of RDATAC and SDATAC sent to the device was RDATAC
    call,                \* the public call in progress, or the last one
    prog,                \* the steps the call in progress still has to perform
    ctlPc,               \* "idle", "run", "acquire", "xfer"
    result,              \* how the last call ended: "" (returned) or the exception
    res,                 \* the value spi_read_reg returned last
    ctlLog,              \* the spi_* calls the call in progress has completed
    stream,              \* which start or stop call was made last, and whether it ended
    irqPc,               \* drdy_callback: "idle", "acquire", "xfer", "dispatch"
    raw,                 \* the frame drdy_callback read
    irqIdx,              \* position of drdy_callback's loop over the handles
    ev,                  \* what the last ready-signal event led to
    stubPc,              \* stub_task: "none", "test", "dispatch", "sleep", "exited", "dead"
    stubRaw,             \* the frame stub_task generated
    stubIdx,             \* position of stub_task's loop over the handles
    stubEv,              \* what the last generated frame led to
    cv_in,               \* codec: the byte sequence handed to convert_24b_data
    cv_out               \* codec: what convert_24b_data gave for it

cfgVars == <<sampling_rate, bias_enabled>>
flagVars == <<stream_active, APIAlive>>
lockVars == <<spi_lock, xferring>>
hwVars == <<spi_state, drdy_armed, pins>>
devVars == <<stub, cfgVars, flagVars, config_registers, clientUpdateHandles,
             lockVars, hwVars, continuous>>
\* what a step of the call in progress moves on: Advance and Abort set these
pcVars == <<prog, ctlPc, result, stream, lifecycle>>
ctlVars == <<call, pcVars, res, ctlLog>>
irqVars == <<irqPc, raw, irqIdx, ev>>
stubVars == <<stubPc, stubRaw, stubIdx, stubEv>>
cvVars == <<cv_in, cv_out>>
vars == <<devVars, ctlVars, irqVars, stubVars, cvVars>>

\* addresses of the register map
RegAddrs == 0..25
\* identity values the device may answer with: values that fail the
\* reserved-bits, the family and the channel-count mask, and 0x92 (an ADS1298)
IdValues == {0, 82, 138, 145, 146}

\* state: "none", "ignored", "reading", "dispatching", or how the callback
\* ended ("done" or the exception); mode: the stream ghost when the event
\* arrived; reads, nbytes: the frame reads made and the bytes asked for;
\* delivered: the handles called with the frame.  All but state are kept only
\* while the callback runs.
NoEvent == [state |-> "none", mode |-> "none", reads |-> 0, nbytes |-> 0,
            delivered |-> <<>>]

Ended(how) == [NoEvent EXCEPT !.state = how]

\* the state after the class body and __init__ have run
InitDriver ==
    /\ sampling_rate = 500
    /\ bias_enabled = FALSE
    /\ stream_active = FALSE
    /\ APIAlive = TRUE
    /\ config_registers = [r \in RegAddrs |-> -1]
    /\ clientUpdateHandles = <<>>
    /\ spi_lock = "none"
    /\ spi_state = "closed"
    /\ drdy_armed = FALSE
    /\ pins = [p \in {START_PIN, nRESET_PIN, nPWRDN_PIN} |-> 0]
    /\ xferring = {}
    /\ lifecycle = "new"
    /\ continuous = FALSE
    /\ call = "none" /\ prog = <<>> /\ ctlPc = "idle" /\ result = ""
    /\ res = 0 /\ ctlLog = <<>> /\ stream = "none"
    /\ irqPc = "idle" /\ raw = <<>> /\ irqIdx = 0 /\ ev = NoEvent
    /\ stubPc = "none" /\ stubRaw = <<>> /\ stubIdx = 0 /\ stubEv = NoEvent

Init ==
    /\ stub \in BOOLEAN
    /\ InitDriver
    /\ cv_in = <<>> /\ cv_out = [exc |-> "none", val |-> 0]


(* ------------------------------------------------------------------ *)
(* The control context: public calls                                    *)
(* ------------------------------------------------------------------ *)
\* a public call begins: its steps are laid out from the configuration the
\* driver holds (only the control context writes sampling_rate and
\* bias_enabled, so they cannot change while the call runs)
Begin(name, steps, streamNow, lifecycleNow) ==
    /\ ctlPc = "idle"
    /\ call' = name
    /\ prog' = steps
    /\ ctlPc' = "run"
    /\ result' = ""
    /\ ctlLog' = <<>>
    /\ stream' = streamNow
    /\ lifecycle' = lifecycleNow
    /\ UNCHANGED <<res, devVars, irqVars, stubVars, cvVars>>

\* open_device has been called and has ended, and close_device has not been
\* called: the caller may go on whether open_device returned or raised
Opened == lifecycle \in {"opened", "open_refused", "open_raised"}

\* the caller opens the device, once, before anything else that uses the bus
CallOpenDevice ==
    /\ lifecycle = "new"
    /\ Begin("open_device", open_device(stub, sampling_rate), stream, "opening")

CallStartExgStream ==
    /\ Opened
    /\ Begin("start_exg_stream", start_exg_stream(sampling_rate, bias_enabled),
             "starting", lifecycle)

CallStartTestStream ==
    /\ Opened
    /\ Begin("start_test_stream", start_test_stream(sampling_rate), "starting", lifecycle)

CallStopStream ==
    /\ Opened
    /\ Begin("stop_stream", stop_stream, "stopping", lifecycle)

ConfigureCall(rate_args) ==
    /\ lifecycle # "closed"
    /\ \E rate_arg \in rate_args, bias_arg \in {-1, 0, 1} :
          Begin("configure", configure(rate_arg, bias_arg), stream, lifecycle)

CallConfigure == ConfigureCall({-1} \cup SomeRates)

CallConfigureAnyRate == ConfigureCall({-1} \cup Rates)

CallRegisterClient ==
    /\ lifecycle # "closed"
    /\ Len(clientUpdateHandles) < MaxClients
    /\ \E h \in Handles : Begin("register_client", register_client(h), stream, lifecycle)

\* the caller closes the device, once, as its last call
CallCloseDevice ==
    /\ Opened
    /\ Begin("close_device", close_device(stub), "closed", "closed")

(* ------------------------------------------------------------------ *)
(* The control context: one step of the call in progress                *)
(* ------------------------------------------------------------------ *)
\* what the stream ghost becomes when the call in progress ends
\* (a start call: returned, refused the sampling rate, or raised otherwise)
StreamAtEnd(exc) ==
    IF call = "start_exg_stream"
    THEN (IF exc = "" THEN "exg"
          ELSE IF exc = "ValueError" THEN "exg_refused" ELSE "exg_raised")
    ELSE IF call = "start_test_stream"
    THEN (IF exc = "" THEN "test"
          ELSE IF exc = "ValueError" THEN "test_refused" ELSE "test_raised")
    ELSE IF call = "stop_stream" THEN (IF exc = "" THEN "stopped" ELSE "stop_raised")
    ELSE stream

\* what lifecycle becomes when the call in progress ends
\* (open_device: returned, failed an assertion of check_device_id, or raised
\* otherwise)
LifecycleAtEnd(exc) ==
    IF call = "open_device"
    THEN (IF exc = "" THEN "opened"
          ELSE IF exc = "AssertionError" THEN "open_refused" ELSE "open_raised")
    ELSE lifecycle

\* the step at the head of prog is done: the call goes on, or returns
Advance ==
    /\ prog' = Tail(prog)
    /\ IF Tail(prog) = <<>>
       THEN /\ ctlPc' = "idle" /\ result' = ""
            /\ stream' = StreamAtEnd("") /\ lifecycle' = LifecycleAtEnd("")
       ELSE ctlPc' = "run" /\ UNCHANGED <<result, stream, lifecycle>>

\* the step at the head of prog raised: the exception leaves the public call
Abort(exc) ==
    /\ prog' = <<>>
    /\ ctlPc' = "idle"
    /\ result' = exc
    /\ stream' = StreamAtEnd(exc)
    /\ lifecycle' = LifecycleAtEnd(exc)

\* self.stream_active = ..., self.APIAlive = ...
CtlSetFlag ==
    /\ ctlPc = "run" /\ Head(prog).op = "flag"
    /\ IF Head(prog).s = "stream_active"
       THEN stream_active' = (Head(prog).b = 1) /\ UNCHANGED APIAlive
       ELSE APIAlive' = (Head(prog).b = 1) /\ UNCHANGED stream_active
    /\ Advance
    /\ UNCHANGED <<call, res, ctlLog, stub, cfgVars, config_registers,
                   clientUpdateHandles, lockVars, hwVars, continuous,
                   irqVars, stubVars, cvVars>>

\* a raise statement, the AttributeError of self.<X>_PIN, or the assertions
\* of check_device_id on the value read
CtlRaise ==
    /\ ctlPc = "run" /\ Head(prog).op \in {"raise", "check_id"}
    /\ IF Head(prog).op = "raise" THEN Abort(Head(prog).s)
       ELSE IF device_id_ok(res) THEN Advance
       ELSE Abort("AssertionError")
    /\ UNCHANGED <<call, res, ctlLog, devVars, irqVars, stubVars, cvVars>>

\* the mutant of CtlConfigure: the assertion is missing
CtlConfigure_noassert ==
    /\ ctlPc = "run" /\ Head(prog).op = "configure"
    /\ sampling_rate' = (IF Head(prog).a # -1 THEN Head(prog).a ELSE sampling_rate)
    /\ bias_enabled' = (IF Head(prog).b # -1 THEN Head(prog).b = 1 ELSE bias_enabled)
    /\ Advance
    /\ UNCHANGED <<call, res, ctlLog, stub, flagVars, config_registers,
                   clientUpdateHandles, lockVars, hwVars, continuous,
                   irqVars, stubVars, cvVars>>

\* the mutant of CtlConfigure: the sampling rate is assigned without the
\* test for None
CtlConfigure_unconditional ==
    /\ ctlPc = "run" /\ Head(prog).op = "configure"
    /\ IF stream_active
       THEN Abort("AssertionError") /\ UNCHANGED <<sampling_rate, bias_enabled>>
       ELSE /\ sampling_rate' = Head(prog).a
            /\ bias_enabled' = (IF Head(prog).b # -1 THEN Head(prog).b = 1 ELSE bias_enabled)
            /\ Advance
    /\ UNCHANGED <<call, res, ctlLog, stub, flagVars, config_registers,
                   clientUpdateHandles, lockVars, hwVars, continuous,
                   irqVars, stubVars, cvVars>>

\* configure: assert not self.stream_active, then the two optional assignments
CtlConfigure ==
    /\ ctlPc = "run" /\ Head(prog).op = "configure"
    /\ IF stream_active
       THEN Abort("AssertionError") /\ UNCHANGED <<sampling_rate, bias_enabled>>
       ELSE /\ sampling_rate' = (IF Head(prog).a # -1 THEN Head(prog).a ELSE sampling_rate)
            /\ bias_enabled' = (IF Head(prog).b # -1 THEN Head(prog).b = 1 ELSE bias_enabled)
            /\ Advance
    /\ UNCHANGED <<call, res, ctlLog, stub, flagVars, config_registers,
                   clientUpdateHandles, lockVars, hwVars, continuous,
                   irqVars, stubVars, cvVars>>

\* register_client: self.clientUpdateHandles.append(client_handle)
CtlRegister ==
    /\ ctlPc = "run" /\ Head(prog).op = "register"
    /\ clientUpdateHandles' = Append(clientUpdateHandles, Head(prog).s)
    /\ Advance
    /\ UNCHANGED <<call, res, ctlLog, stub, cfgVars, flagVars, config_registers,
                   lockVars, hwVars, continuous, irqVars, stubVars, cvVars>>

\* the resource steps of open_device and close_device
CtlResource ==
    /\ ctlPc = "run"
    /\ Head(prog).op \in {"spi_open", "gpio_setup", "add_event_detect", "thread_start",
                          "lock_new", "spi_close", "gpio_cleanup", "thread_join"}
    \* Thread.join returns once stub_task has returned or died
    /\ Head(prog).op = "thread_join" => stubPc \in {"exited", "dead"}
    /\ spi_state' = CASE Head(prog).op = "spi_open" -> "open"
                      [] Head(prog).op = "spi_close" -> "closed"
                      [] OTHER -> spi_state
    /\ pins' = IF Head(prog).op = "gpio_setup"
               THEN [p \in {START_PIN, nRESET_PIN, nPWRDN_PIN} |-> 0]
               ELSE pins
    /\ drdy_armed' = CASE Head(prog).op = "add_event_detect" -> TRUE
                       [] Head(prog).op = "gpio_cleanup" -> FALSE
                       [] OTHER -> drdy_armed
    /\ stubPc' = IF Head(prog).op = "thread_start" THEN "test" ELSE stubPc
    /\ spi_lock' = IF Head(prog).op = "lock_new" THEN "free" ELSE spi_lock
    /\ Advance
    /\ UNCHANGED <<call, res, ctlLog, stub, cfgVars, flagVars, config_registers,
                   clientUpdateHandles, xferring, continuous, irqVars,
                   stubRaw, stubIdx, stubEv, cvVars>>

\* the mutant of ImageAfter: the loop of spi_write_multiple_reg stops one
\* address short
ImageAfter_short(step) ==
    CASE step.op = "wreg" -> [config_registers EXCEPT ![step.a] = step.b]
      [] step.op = "wmul" ->
            [r \in RegAddrs |->
                IF r \in step.a .. (step.a + Len(step.arr) - 2)
                THEN step.arr[r - step.a + 1]
                ELSE config_registers[r]]
      [] OTHER -> config_registers

\* the register image after the assignments an spi_write_* makes before it
\* looks at STUB_API or at the lock
ImageAfter(step) ==
    CASE step.op = "wreg" -> [config_registers EXCEPT ![step.a] = step.b]
      [] step.op = "wmul" ->
            [r \in RegAddrs |->
                IF r \in step.a .. (step.a + Len(step.arr) - 1)
                THEN step.arr[r - step.a + 1]
                ELSE config_registers[r]]
      [] OTHER -> config_registers

\* which of RDATAC and SDATAC the device was sent last, after this spi_* call
ContinuousAfter(step) ==
    IF step.op = "cmd" /\ step.a = RDATAC THEN TRUE
    ELSE IF step.op = "cmd" /\ step.a = SDATAC THEN FALSE
    ELSE continuous

\* entering spi_transmit_byte, spi_write_single_reg, spi_write_multiple_reg or
\* spi_read_reg: the image is updated, then with STUB_API the function
\* returns (spi_read_reg: 0x92 for REG_ID, else 0), and without it the
\* caller goes on to take the lock
CtlBusEnter ==
    /\ ctlPc = "run" /\ Head(prog).op \in {"cmd", "wreg", "wmul", "rreg"}
    /\ config_registers' = ImageAfter(Head(prog))
    /\ IF stub
       THEN /\ res' = (IF Head(prog).op = "rreg"
                       THEN (IF Head(prog).a = REG_ID THEN 146 ELSE 0)
                       ELSE res)
            /\ ctlLog' = Append(ctlLog, Head(prog))
            /\ Advance
       ELSE /\ ctlPc' = "acquire"
            /\ UNCHANGED <<res, ctlLog, prog, result, stream, lifecycle>>
    /\ UNCHANGED <<call, stub, cfgVars, flagVars, clientUpdateHandles, lockVars,
                   hwVars, continuous, irqVars, stubVars, cvVars>>

\* the mutant of CtlAcquire: the transfer is made without taking the lock
CtlAcquire_nolock ==
    /\ ctlPc = "acquire"
    /\ xferring' = xferring \cup {"ctl"}
    /\ ctlPc' = "xfer"
    /\ UNCHANGED <<call, prog, result, stream, lifecycle, res, ctlLog, stub, cfgVars,
                   flagVars, config_registers, clientUpdateHandles, spi_lock,
                   hwVars, continuous, irqVars, stubVars, cvVars>>

\* with self.spi_lock: the lock is taken when it is free, and spi.xfer begins
CtlAcquire ==
    /\ ctlPc = "acquire"
    /\ spi_lock = "free"
    /\ spi_lock' = "ctl"
    /\ xferring' = xferring \cup {"ctl"}
    /\ ctlPc' = "xfer"
    /\ UNCHANGED <<call, prog, result, stream, lifecycle, res, ctlLog, stub, cfgVars,
                   flagVars, config_registers, clientUpdateHandles,
                   hwVars, continuous, irqVars, stubVars, cvVars>>

\* spi.xfer returns and the with block ends: the lock is released
CtlXferEnd ==
    /\ ctlPc = "xfer"
    /\ xferring' = xferring \ {"ctl"}
    /\ spi_lock' = (IF spi_lock = "ctl" THEN "free" ELSE spi_lock)
    /\ ctlLog' = Append(ctlLog, Head(prog))
    /\ continuous' = ContinuousAfter(Head(prog))
    /\ \E v \in (IF Head(prog).op = "rreg" THEN IdValues ELSE {res}) : res' = v
    /\ Advance
    /\ UNCHANGED <<call, stub, cfgVars, flagVars, config_registers,
                   clientUpdateHandles, hwVars, irqVars, stubVars, cvVars>>

\* spi.xfer raises (the transfer failed): the with block releases the lock and
\* the exception leaves the spi_* function and the public call; the log keeps
\* the call, marked with the exception
CtlXferFails ==
    /\ ctlPc = "xfer"
    /\ xferring' = xferring \ {"ctl"}
    /\ spi_lock' = (IF spi_lock = "ctl" THEN "free" ELSE spi_lock)
    /\ ctlLog' = Append(ctlLog, [Head(prog) EXCEPT !.s = "IOError"])
    /\ Abort("IOError")
    /\ UNCHANGED <<call, res, stub, cfgVars, flagVars, config_registers,
                   clientUpdateHandles, hwVars, continuous, irqVars, stubVars, cvVars>>

(* ------------------------------------------------------------------ *)
(* The GPIO event context: drdy_callback                                *)
(* ------------------------------------------------------------------ *)
\* the mutant of DrdyEvent: the frame is read whatever stream_active holds
DrdyEvent_noguard ==
    /\ drdy_armed
    /\ irqPc = "idle"
    /\ ev' = [NoEvent EXCEPT !.state = "reading", !.mode = stream]
    /\ irqPc' = "acquire"
    /\ UNCHANGED <<raw, irqIdx, devVars, ctlVars, stubVars, cvVars>>

\* a falling edge of DRDY: drdy_callback is entered and tests stream_active;
\* it returns at once when no stream is active
DrdyEvent ==
    /\ drdy_armed
    /\ irqPc = "idle"
    /\ IF ~stream_active
       THEN /\ ev' = [NoEvent EXCEPT !.state = "ignored", !.mode = stream]
            /\ UNCHANGED irqPc
       ELSE /\ ev' = [NoEvent EXCEPT !.state = "reading", !.mode = stream]
            /\ irqPc' = "acquire"
    /\ UNCHANGED <<raw, irqIdx, devVars, ctlVars, stubVars, cvVars>>

\* the mutant of IrqAcquire: the frame is read without taking the lock
IrqAcquire_nolock ==
    /\ irqPc = "acquire"
    /\ xferring' = xferring \cup {"irq"}
    /\ irqPc' = "xfer"
    /\ UNCHANGED <<raw, irqIdx, ev, stub, cfgVars, flagVars, config_registers,
                   clientUpdateHandles, spi_lock, hwVars, continuous, ctlVars,
                   stubVars, cvVars>>

\* spi_read_multiple_bytes(3 + NUM_CHANNELS * 3): with self.spi_lock, the lock
\* is taken when it is free, and spi.xfer begins
IrqAcquire ==
    /\ irqPc = "acquire"
    /\ spi_lock = "free"
    /\ spi_lock' = "irq"
    /\ xferring' = xferring \cup {"irq"}
    /\ irqPc' = "xfer"
    /\ UNCHANGED <<raw, irqIdx, ev, stub, cfgVars, flagVars, config_registers,
                   clientUpdateHandles, hwVars, continuous, ctlVars,
                   stubVars, cvVars>>

\* spi.xfer([0x00] * nb_bytes) returns as many bytes as it was given, and the
\* lock is released; on a bus that close_device has closed it raises, and the
\* exception ends the callback
IrqXferEnd ==
    /\ irqPc = "xfer"
    /\ xferring' = xferring \ {"irq"}
    /\ spi_lock' = (IF spi_lock = "irq" THEN "free" ELSE spi_lock)
    /\ IF spi_state = "open"
       THEN \E sw \in StatusWords :
              /\ raw' = sw \o Repeat(0, NUM_CHANNELS * 3)
              /\ ev' = [ev EXCEPT !.reads = ev.reads + 1,
                                  !.nbytes = 3 + NUM_CHANNELS * 3,
                                  !.state = "dispatching"]
              /\ irqPc' = "dispatch"
              /\ irqIdx' = 1
       ELSE /\ ev' = Ended("IOError")
            /\ irqPc' = "idle"
            /\ UNCHANGED <<raw, irqIdx>>
    /\ UNCHANGED <<stub, cfgVars, flagVars, config_registers, clientUpdateHandles,
                   hwVars, continuous, ctlVars, stubVars, cvVars>>

\* for handle in self.clientUpdateHandles: handle(raw).  The loop reads the
\* list as it is at each iteration.  default_callback asserts that the frame
\* is in sync; the AssertionError leaves the loop and the callback.
IrqDispatch ==
    /\ irqPc = "dispatch"
    /\ IF irqIdx > Len(clientUpdateHandles)
       THEN /\ ev' = Ended("done")
            /\ irqPc' = "idle"
            /\ irqIdx' = 0
            /\ raw' = <<>>
       ELSE IF clientUpdateHandles[irqIdx] = "default_callback" /\ ~in_sync(raw)
       THEN /\ ev' = Ended("AssertionError")
            /\ irqPc' = "idle"
            /\ irqIdx' = 0
            /\ raw' = <<>>
       ELSE /\ ev' = [ev EXCEPT !.delivered = Append(@, clientUpdateHandles[irqIdx])]
            /\ irqIdx' = irqIdx + 1
            /\ UNCHANGED <<irqPc, raw>>
    /\ UNCHANGED <<devVars, ctlVars, stubVars, cvVars>>

(* ------------------------------------------------------------------ *)
(* The generator thread of the offline mode: stub_task                  *)
(* ------------------------------------------------------------------ *)
\* the mutant of StubTest: the loop does not test APIAlive
StubTest_forever ==
    /\ stubPc = "test"
    /\ IF stream_active
       THEN \E b \in {0, 255} :
              /\ stubRaw' = <<192>> \o Repeat(b, 2 + 3 * NUM_CHANNELS)
              /\ stubIdx' = 1
              /\ stubEv' = [NoEvent EXCEPT !.state = "dispatching", !.mode = stream]
              /\ stubPc' = "dispatch"
       ELSE stubPc' = "sleep" /\ UNCHANGED <<stubRaw, stubIdx, stubEv>>
    /\ UNCHANGED <<devVars, ctlVars, irqVars, cvVars>>

\* while self.APIAlive: if self.stream_active: raw = b"\xC0" + random bytes
StubTest ==
    /\ stubPc = "test"
    /\ IF ~APIAlive
       THEN stubPc' = "exited" /\ UNCHANGED <<stubRaw, stubIdx, stubEv>>
       ELSE IF stream_active
       THEN \E b \in {0, 255} :
              /\ stubRaw' = <<192>> \o Repeat(b, 2 + 3 * NUM_CHANNELS)
              /\ stubIdx' = 1
              /\ stubEv' = [NoEvent EXCEPT !.state = "dispatching", !.mode = stream]
              /\ stubPc' = "dispatch"
       ELSE stubPc' = "sleep" /\ UNCHANGED <<stubRaw, stubIdx, stubEv>>
    /\ UNCHANGED <<devVars, ctlVars, irqVars, cvVars>>

\* for handle in self.clientUpdateHandles: handle(raw).  default_callback
\* begins with GPIO.output, and GPIO is not bound when the import failed: the
\* NameError ends the thread
StubDispatch ==
    /\ stubPc = "dispatch"
    /\ IF stubIdx > Len(clientUpdateHandles)
       THEN /\ stubEv' = Ended("done")
            /\ stubPc' = "sleep"
            /\ stubIdx' = 0
            /\ stubRaw' = <<>>
       ELSE IF clientUpdateHandles[stubIdx] = "default_callback"
       THEN /\ stubEv' = Ended("NameError")
            /\ stubPc' = "dead"
            /\ stubIdx' = 0
            /\ stubRaw' = <<>>
       ELSE /\ stubEv' = [stubEv EXCEPT !.delivered = Append(@, clientUpdateHandles[stubIdx])]
            /\ stubIdx' = stubIdx + 1
            /\ UNCHANGED <<stubPc, stubRaw>>
    /\ UNCHANGED <<devVars, ctlVars, irqVars, cvVars>>

\* sleep(1.0 / float(self.sampling_rate)), then the loop test again
StubSleep ==
    /\ stubPc = "sleep"
    /\ stubPc' = "test"
    /\ UNCHANGED <<stubRaw, stubIdx, stubEv, devVars, ctlVars, irqVars, cvVars>>

(* ------------------------------------------------------------------ *)
(* Specifications                                                       *)
(* ------------------------------------------------------------------ *)
Next ==
    \/ CallOpenDevice
    \/ CallStartExgStream
    \/ CallStartTestStream
    \/ CallStopStream
    \/ CallConfigure
    \/ CallRegisterClient
    \/ CallCloseDevice
    \/ CtlSetFlag
    \/ CtlRaise
    \/ CtlConfigure
    \/ CtlRegister
    \/ CtlResource
    \/ CtlBusEnter
    \/ CtlAcquire
    \/ CtlXferEnd
    \/ DrdyEvent
    \/ IrqAcquire
    \/ IrqXferEnd
    \/ IrqDispatch
    \/ StubTest
    \/ StubDispatch
    \/ StubSleep

Spec == Init /\ [][Next]_vars

\* the control context alone, with every rate: no ready-signal event arrives
\* and the generator thread is not scheduled
NextSeq ==
    \/ CallOpenDevice
    \/ CallStartExgStream
    \/ CallStartTestStream
    \/ CallStopStream
    \/ CallConfigureAnyRate
    \/ CallCloseDevice
    \/ CtlSetFlag
    \/ CtlRaise
    \/ CtlConfigure
    \/ CtlResource
    \/ CtlBusEnter
    \/ CtlAcquire
    \/ CtlXferEnd

SpecSeq == Init /\ [][NextSeq]_vars

\* the control context alone, on a bus whose transfers may fail
NextFault ==
    \/ CallOpenDevice
    \/ CallStartExgStream
    \/ CallStartTestStream
    \/ CallStopStream
    \/ CallConfigure
    \/ CallCloseDevice
    \/ CtlSetFlag
    \/ CtlRaise
    \/ CtlConfigure
    \/ CtlResource
    \/ CtlBusEnter
    \/ CtlAcquire
    \/ CtlXferEnd
    \/ CtlXferFails

SpecFault == Init /\ [][NextFault]_vars

\* the offline mode: the control context beside the generator thread, with
\* the configuration of the class body
InitStub ==
    /\ stub = TRUE
    /\ InitDriver
    /\ cv_in = <<>> /\ cv_out = [exc |-> "none", val |-> 0]

NextStub ==
    \/ CallOpenDevice
    \/ CallStartExgStream
    \/ CallStartTestStream
    \/ CallStopStream
    \/ CallRegisterClient
    \/ CallCloseDevice
    \/ CtlSetFlag
    \/ CtlRaise
    \/ CtlRegister
    \/ CtlResource
    \/ CtlBusEnter
    \/ StubTest
    \/ StubDispatch
    \/ StubSleep

\* both threads are scheduled again and again: the generator thread takes its
\* next step, and a public call that has begun takes its next step (the
\* caller is free never to make another call)
StubFairness ==
    /\ WF_vars(StubTest \/ StubDispatch \/ StubSleep)
    /\ WF_vars(CtlSetFlag \/ CtlRaise \/ CtlRegister \/ CtlResource \/ CtlBusEnter)

SpecStub == InitStub /\ [][NextStub]_vars /\ StubFairness

\* the byte sequences handed to the codec
ByteSeqs == UNION {[1..n -> ByteSamples] : n \in 0..MaxLen}

InitCodec ==
    /\ stub = FALSE
    /\ InitDriver
    /\ cv_in \in ByteSeqs
    /\ cv_out = [exc |-> "none", val |-> 0]

\* one call of convert_24b_data
Convert ==
    /\ cv_out.exc = "none"
    /\ cv_out' = convert_24b_data(cv_in)
    /\ UNCHANGED <<cv_in, devVars, ctlVars, irqVars, stubVars>>

NextCodec == Convert

SpecCodec == InitCodec /\ [][NextCodec]_vars


(* ------------------------------------------------------------------ *)
(* Properties                                                           *)
(* ------------------------------------------------------------------ *)
\* the step of the call in progress that runs the body of configure
ConfigureStep == ctlPc = "run" /\ Head(prog).op = "configure" /\ prog' # prog

\* the callback of the event context, having read its frame, ends in this step
CallbackEnds == irqPc = "dispatch" /\ irqPc' = "idle"

StartCalls == {"start_exg_stream", "start_test_stream"}

\* C1: a configure call made while a stream is active fails (the assertion
\* raises) and leaves sampling_rate and bias_enabled as they were, whichever
\* of its two arguments are present.  (The channel count is the constant
\* NUM_CHANNELS; nothing assigns it.)
C1_ConfigureRejectedWhileStreaming ==
    [][(ConfigureStep /\ stream_active)
          => (/\ result' = "AssertionError"
              /\ sampling_rate' = sampling_rate
              /\ bias_enabled' = bias_enabled)]_vars

\* C1 witness: a configure call has just failed while the stream is active
C1_Witness ==
    /\ call = "configure" /\ ctlPc = "idle"
    /\ result = "AssertionError"
    /\ stream_active

\* the value the claim gives for CONFIG1 at each supported rate
RateCode(rate) ==
    CASE rate = 500 -> 134
      [] rate = 1000 -> 133
      [] rate = 2000 -> 132
      [] rate = 4000 -> 131

\* C2: when a start-stream call has ended, then with a sampling rate of 500,
\* 1000, 2000 or 4000 the call has written 0x86, 0x85, 0x84 or 0x83 to CONFIG1
\* and no configuration error was raised, and with any other rate it has
\* raised the configuration error and has written nothing to CONFIG1.
C2_SamplingRateTable ==
    (call \in StartCalls /\ ctlPc = "idle")
        => IF sampling_rate \in {500, 1000, 2000, 4000}
           THEN /\ result # "ValueError"
                /\ \E i \in DOMAIN ctlLog :
                      /\ ctlLog[i].op = "wreg" /\ ctlLog[i].a = REG_CONFIG1
                      /\ ctlLog[i].b = RateCode(sampling_rate)
                /\ config_registers[REG_CONFIG1] = RateCode(sampling_rate)
           ELSE /\ result = "ValueError"
                /\ \A i \in DOMAIN ctlLog :
                      ~(ctlLog[i].op = "wreg" /\ ctlLog[i].a = REG_CONFIG1)

\* C3: a ready-signal event that arrives after stop_stream has returned and
\* before the next start-stream call begins is ignored: the callback does not
\* go on to read the bus and calls no subscriber.
C3_NoDispatchAfterStop ==
    ev.mode = "stopped"
        => /\ ev.state = "ignored"
           /\ ev.reads = 0
           /\ ev.delivered = <<>>

\* C3 witness: with a subscriber registered, an event has arrived after
\* stop_stream returned, and it was ignored
C3_Witness ==
    /\ stream = "stopped"
    /\ ev.mode = "stopped" /\ ev.state = "ignored"
    /\ clientUpdateHandles # <<>>
    /\ irqPc = "idle"

\* C4: open_device ends by returning or by the identification error, and
\* start_test_stream by returning or by the configuration error, so that the
\* scenario open, identity check passed, test stream started exists; every
\* ready-signal event that arrives once start_test_stream has returned is
\* read, with one read of 3 + 3 * NUM_CHANNELS bytes, and its frame is handed
\* to every registered subscriber once, in the order of registration.
C4_TestStreamDispatch ==
    /\ [](/\ lifecycle # "open_raised"
          /\ stream # "test_raised"
          /\ (ev.mode = "test" /\ irqPc = "dispatch")
               => /\ ev.reads = 1
                  /\ ev.nbytes = 3 + 3 * NUM_CHANNELS
                  /\ Len(raw) = 3 + 3 * NUM_CHANNELS
                  /\ ev.delivered = SubSeq(clientUpdateHandles, 1, irqIdx - 1))
    /\ [][/\ (stream = "test" /\ irqPc = "idle" /\ ev' # ev) => irqPc' = "acquire"
          /\ (ev.mode = "test" /\ CallbackEnds)
               => (ev'.state = "done" /\ ev.delivered = clientUpdateHandles)]_vars

\* C5: in a start-stream call the active-stream flag is set only after the
\* START line has been asserted and RDATAC has been sent, and a start-stream
\* call that gets past the sampling rate returns with RDATAC as the last bus
\* transaction it made.
C5_StartSequenceOrder ==
    /\ (~stub /\ stream_active) => (pins[START_PIN] = 1 /\ continuous)
    /\ (call \in StartCalls /\ ctlPc = "idle" /\ result # "ValueError")
          => /\ result = ""
             /\ ctlLog # <<>>
             /\ ctlLog[Len(ctlLog)].op = "cmd"
             /\ ctlLog[Len(ctlLog)].a = RDATAC

\* C6: when open_device has ended, the identity register has been read exactly
\* once, and open_device has returned if the value read passes the three
\* masks and has raised the assertion error if it does not.
C6_IdentityCheckedOnce ==
    (call = "open_device" /\ ctlPc = "idle")
        => /\ Cardinality({i \in DOMAIN ctlLog :
                              ctlLog[i].op = "rreg" /\ ctlLog[i].a = REG_ID}) = 1
           /\ device_id_ok(res) => result = ""
           /\ ~device_id_ok(res) => result = "AssertionError"

\* C7: the callback of a ready-signal event that has read its frame does not
\* end by an exception: the frame, in sync or out of sync, is handed to
\* every registered subscriber, so that an out-of-sync frame reaches them all
\* and the frames after it do.
C7_OutOfSyncFrameDispatched ==
    [][CallbackEnds
          => (ev'.state = "done" /\ ev.delivered = clientUpdateHandles)]_vars

\* C8: a configure call made while a stream is active interrupts the stream:
\* after the call the stream is not active.
C8_ConfigureInterruptsStream ==
    [][(ConfigureStep /\ stream_active) => ~stream_active']_vars

\* the 24 bits of a 3-byte sequence, most significant byte first
Value24(b) == b[1] * 65536 + b[2] * 256 + b[3]

\* the two's-complement reading of 24 bits
Signed24(v) == IF v >= 8388608 THEN v - 16777216 ELSE v

\* C9: convert_24b_data of a 3-byte sequence returns the two's-complement
\* value of the 24 bits, in 0 .. 2^23-1 when the top bit of the first byte is
\* clear and in -2^23 .. -1 when it is set; [0,0,1] gives 1 and
\* [0xFF,0xFF,0xFF] gives -1; a sequence of any other length raises the
\* ValueError.
C9_Decode24 ==
    cv_out.exc # "none"
        => IF Len(cv_in) # 3
           THEN cv_out.exc = "ValueError"
           ELSE /\ cv_out.exc = ""
                /\ cv_out.val = Signed24(Value24(cv_in))
                /\ cv_in[1] < 128 => cv_out.val \in 0 .. 8388607
                /\ cv_in[1] >= 128 => cv_out.val \in -8388608 .. -1
                /\ cv_in = <<0, 0, 1>> => cv_out.val = 1
                /\ cv_in = <<255, 255, 255>> => cv_out.val = -1

\* C9 witness: a negative value has been decoded
C9_Witness ==
    /\ cv_in = <<255, 255, 255>>
    /\ cv_out = [exc |-> "", val |-> -1]

\* C10: at most one context is inside spi.xfer at any time; a context is
\* inside spi.xfer exactly while it holds the lock, so the lock is held for
\* one transfer and never from one transfer to the next.
C10_OneTransferUnderLock ==
    /\ Cardinality(xferring) <= 1
    /\ \A c \in {"ctl", "irq"} : (c \in xferring) <=> (spi_lock = c)
    /\ (ctlPc = "xfer") <=> ("ctl" \in xferring)
    /\ (irqPc = "xfer") <=> ("irq" \in xferring)

\* C10 witness: the event context waits for the lock while the control
\* context is inside a transfer
C10_Witness ==
    /\ spi_lock = "ctl" /\ xferring = {"ctl"}
    /\ irqPc = "acquire"

\* the event context begins the read of a frame in this step
FrameRead == irqPc = "acquire" /\ irqPc' = "xfer"

\* drdy_callback calls a subscriber with its frame in this step
HandleCalled == irqPc = "dispatch" /\ irqIdx' = irqIdx + 1

\* C11: a frame is read, and a subscriber is called with a frame, only in
\* states where the active-stream flag is true, however the start-stream and
\* stop_stream calls interleave with the ready-signal events.
C11_ReadsOnlyWhileActive ==
    [][(FrameRead \/ HandleCalled) => stream_active]_vars

\* the call in progress is inside a register write: past the assignments to
\* the image, before the end of the transfer
InWrite == ctlPc \in {"acquire", "xfer"} /\ Head(prog).op \in {"wreg", "wmul"}

\* the call in progress enters a register write in this step
EntersWrite ==
    /\ ctlPc = "run" /\ prog # <<>> /\ Head(prog).op \in {"wreg", "wmul"}
    /\ <<prog, ctlPc>>' # <<prog, ctlPc>>

\* the addresses a register write names
Written(step) ==
    IF step.op = "wreg" THEN {step.a} ELSE {step.a + i : i \in 0 .. Len(step.arr) - 1}

\* the image holds the values of a register write
Mirrors(image, step) ==
    IF step.op = "wreg" THEN image[step.a] = step.b
    ELSE \A i \in 0 .. Len(step.arr) - 1 : image[step.a + i] = step.arr[i + 1]

\* C12: the step that enters write_single(reg, v) or write_multiple(base,
\* values) puts v at reg, or values[i] at base+i for every i, in the image and
\* changes no other address, with and without STUB_API; the image holds these
\* values while the transfer is attempted; and no other step changes the
\* image, the end of a transfer that failed included.
C12_ImageMirrorsWrites ==
    /\ [](InWrite => Mirrors(config_registers, Head(prog)))
    /\ [][IF EntersWrite
          THEN /\ Mirrors(config_registers', Head(prog))
               /\ \A r \in RegAddrs \ Written(Head(prog)) :
                     config_registers'[r] = config_registers[r]
          ELSE config_registers' = config_registers]_vars

\* C12 witness: a write of all the channel registers has failed on the bus,
\* and the image holds its values
C12_Witness ==
    /\ ctlPc = "idle" /\ result = "IOError"
    /\ ctlLog[Len(ctlLog)].op = "wmul" /\ ctlLog[Len(ctlLog)].s = "IOError"
    /\ Len(ctlLog[Len(ctlLog)].arr) = NUM_CHANNELS
    /\ Mirrors(config_registers, ctlLog[Len(ctlLog)])

\* C13: a configure call that returns sets sampling_rate and bias_enabled to
\* the arguments that are present and leaves the one whose argument is absent
\* as it was; it makes no bus transaction and leaves the register image, the
\* active-stream flag, the output pins, the lock and the list of subscribers
\* as they were.
C13_ConfigureFrame ==
    [][(ConfigureStep /\ ctlPc' = "idle" /\ result' = "")
          => /\ sampling_rate' = (IF Head(prog).a = -1 THEN sampling_rate ELSE Head(prog).a)
             /\ bias_enabled' = (IF Head(prog).b = -1 THEN bias_enabled ELSE Head(prog).b = 1)
             /\ ctlLog' = <<>>
             /\ UNCHANGED <<config_registers, stream_active, APIAlive, pins,
                            clientUpdateHandles, spi_lock, xferring, continuous>>]_vars

\* C13 witness: with registers written and a subscriber registered, a
\* configure call has returned and has changed both fields
C13_Witness ==
    /\ call = "configure" /\ ctlPc = "idle" /\ result = ""
    /\ sampling_rate = 250 /\ bias_enabled
    /\ config_registers[REG_CONFIG1] = 134
    /\ clientUpdateHandles # <<>>

InvalidRate == sampling_rate \notin {500, 1000, 2000, 4000}

\* C15: during and after a start-stream call made with a sampling rate that
\* is none of the four, the active-stream flag is false, the START line is
\* low and no RDATAC has been sent; the call ends with the ValueError.
C15_InvalidRateStartFails ==
    (call \in StartCalls /\ InvalidRate)
        => /\ ~stream_active
           /\ pins[START_PIN] = 0
           /\ ~continuous
           /\ \A i \in DOMAIN ctlLog : ~(ctlLog[i].op = "cmd" /\ ctlLog[i].a = RDATAC)
           /\ ctlPc = "idle" => result = "ValueError"

\* C15 witness: start_exg_stream has ended with the ValueError, after the
\* transfers that precede set_sampling_rate, and no stream is active
C15_Witness ==
    /\ call = "start_exg_stream" /\ ctlPc = "idle"
    /\ sampling_rate = 250 /\ result = "ValueError"
    /\ ctlLog # <<>>
    /\ ~stream_active

\* start_exg_stream is at its call of set_start, or has ended past it
ExgConfigured ==
    /\ call = "start_exg_stream"
    /\ \/ ctlPc = "run" /\ Head(prog).op = "raise" /\ Head(prog).s = "AttributeError"
       \/ ctlPc = "idle" /\ result # "ValueError"

\* the n-th last bus call of the call in progress is a write of v to reg
WroteLast(n, reg, v) ==
    /\ Len(ctlLog) >= n
    /\ ctlLog[Len(ctlLog) - n + 1].op = "wreg"
    /\ ctlLog[Len(ctlLog) - n + 1].a = reg
    /\ ctlLog[Len(ctlLog) - n + 1].b = v

\* the number of writes of one register the call in progress has made
Writes(reg) ==
    Cardinality({i \in DOMAIN ctlLog : ctlLog[i].op = "wreg" /\ ctlLog[i].a = reg})

\* C16: when start_exg_stream reaches set_start, then with bias_enabled false
\* the bias-drive step has written nothing (the last write is that of the
\* leads-off step, CONFIG3 was written once and each bias-sense register
\* twice) and the image holds BIAS_SENSP = 0xFF, BIAS_SENSN = 0x01 and
\* CONFIG3 = 0x48; with bias_enabled true the last three writes are 0xFF to
\* BIAS_SENSP, 0xFF to BIAS_SENSN and 0xEC to CONFIG3, and the image holds
\* them.
C16_BiasDriveConditional ==
    ExgConfigured
        => IF bias_enabled
           THEN /\ WroteLast(3, REG_BIAS_SENSP, 255)
                /\ WroteLast(2, REG_BIAS_SENSN, 255)
                /\ WroteLast(1, REG_CONFIG3, 236)
                /\ config_registers[REG_BIAS_SENSP] = 255
                /\ config_registers[REG_BIAS_SENSN] = 255
                /\ config_registers[REG_CONFIG3] = 236
           ELSE /\ WroteLast(1, REG_CONFIG4, 2)
                /\ Writes(REG_CONFIG3) = 1
                /\ Writes(REG_BIAS_SENSP) = 2 /\ Writes(REG_BIAS_SENSN) = 2
                /\ config_registers[REG_BIAS_SENSP] = 255
                /\ config_registers[REG_BIAS_SENSN] = 1
                /\ config_registers[REG_CONFIG3] = 72

\* C16 witness: start_exg_stream has ended with the bias drive enabled
C16_Witness ==
    /\ call = "start_exg_stream" /\ ctlPc = "idle" /\ result # "ValueError"
    /\ bias_enabled
    /\ config_registers[REG_CONFIG3] = 236
    /\ config_registers[REG_BIAS_SENSN] = 255

\* C17: the ready-signal detection is registered only while the bus is open
\* (shutdown removes it before it closes the bus), and the event context is
\* inside a transfer only while the bus is open; once close_device has
\* returned both are released.
C17_ShutdownOrder ==
    /\ drdy_armed => spi_state = "open"
    /\ irqPc = "xfer" => spi_state = "open"
    /\ (call = "close_device" /\ ctlPc = "idle" /\ ~stub)
          => (~drdy_armed /\ spi_state = "closed")

\* stub_task is in its loop
GeneratorRuns == stubPc \in {"test", "dispatch", "sleep"}

\* every registered subscriber returns when it is called by stub_task
SubscribersReturn ==
    \A i \in DOMAIN clientUpdateHandles : clientUpdateHandles[i] # "default_callback"

\* C18: with STUB_API, the generator loop leaves only when APIAlive is false,
\* and with subscribers that return it is in its loop as long as APIAlive is
\* true; once APIAlive is false the generator thread ends, and a close_device
\* call that has begun returns, with the generator thread ended.
C18_GeneratorTerminates ==
    /\ [](stubPc = "exited" => ~APIAlive)
    /\ []((stubPc # "none" /\ APIAlive /\ SubscribersReturn) => GeneratorRuns)
    /\ ((~APIAlive /\ GeneratorRuns) ~> (stubPc \in {"exited", "dead"}))
    /\ ((call = "close_device" /\ ctlPc # "idle")
            ~> (/\ call = "close_device" /\ ctlPc = "idle" /\ result = ""
                /\ stubPc \in {"exited", "dead"}))

\* C18 witness: close_device, called while the stream was active, has
\* returned, and the generator loop has left
C18_Witness ==
    /\ stub
    /\ call = "close_device" /\ ctlPc = "idle" /\ result = ""
    /\ stream_active
    /\ clientUpdateHandles # <<>>
    /\ stubPc = "exited"

\* C19: when a start-stream call has ended, unless the sampling rate was
\* refused, the stream is active and frames are produced: with STUB_API the
\* generator thread has not left its loop, also when a stop_stream came before.
C19_StreamRestarts ==
    (call \in StartCalls /\ ctlPc = "idle" /\ result # "ValueError")
        => /\ stream_active
           /\ stub => stubPc # "exited"

\* C20: the event context is inside the read of a frame only while the last
\* of RDATAC and SDATAC sent to the device is RDATAC.
C20_ReadsOnlyInContinuousMode ==
    irqPc = "xfer" => continuous

====
